---- MODULE Spec2Model ----
(***************************************************************************)
(* DeepCSAT (src/app.py): a Streamlit page.  Every user interaction reruns *)
(* the script top to bottom in the session that caused it.  A rerun is     *)
(* modelled as the sequence of the script's sections (pc), so that several *)
(* sessions of one server process interleave on the shared feedback file.  *)
(*                                                                         *)
(* Library behaviour assumed: st.file_uploader hands the script a freshly  *)
(* positioned buffer of the held file on every rerun; st.stop() and an     *)
(* uncaught exception both end the rerun; a widget can be operated only if *)
(* the last rerun rendered it; a text file opened in append mode flushes   *)
(* one buffered write as one append when it is closed.                     *)
(***************************************************************************)
EXTENDS Integers, Sequences, FiniteSets

\* ------------------------------------------------------------------ bounds
MaxRows == 2
MaxLog == 2

\* ------------------------------------------------------- program constants
RatingMin == 1
RatingMax == 5
RatingDefault == 3
SatisfiedThreshold == 4

\* ---------------------------------------------------------------- helpers
Range(q) == {q[i] : i \in DOMAIN q}

SeqsUpTo(S, n) == UNION {[1..k -> S] : k \in 0..n}

Sessions == {"s1", "s2"}

\* ---------------------------------------------------------------- columns
FeatureCols ==
    <<"channel_name", "category", "Sub-category", "Agent_name",
      "Supervisor", "Manager", "Tenure Bucket", "Agent Shift">>

AnalyticCols == <<"CSAT Score", "resolution_time", "connected_handling_time">>

PredictedCSAT == "Predicted CSAT"
PredictedLabel == "Predicted Label"
PredictionCols == {PredictedCSAT, PredictedLabel}

\* The columns the live form reads outside any try block.
FormCols == <<"channel_name", "Tenure Bucket", "Agent Shift">>

\* ------------------------------------------------------------ uploaded CSVs
Channels == {"Email", "Chat"}

FullHeader == FeatureCols \o AnalyticCols

DropCol(h, c) == SelectSeq(h, LAMBDA x : x # c)

\* The complete header, and every header lacking exactly one column.
Headers == {FullHeader} \cup {DropCol(FullHeader, c) : c \in Range(FullHeader)}

\* The cell a ticket on channel ch carries in column c.
Cell(c, ch) ==
    CASE c = "channel_name" -> ch
      [] c = "CSAT Score" -> IF ch = "Email" THEN 5 ELSE 2
      [] OTHER -> "v"

Record(h, ch) == [i \in 1..Len(h) |-> Cell(h[i], ch)]

CsvFile(h, chs) == [header |-> h, records |-> [i \in 1..Len(chs) |-> Record(h, chs[i])]]

\* A file with no header line, and one whose data line has a field too many.
EmptyCsv == [header |-> <<>>, records |-> <<>>]
RaggedCsv == [header |-> <<"category">>, records |-> << <<"v", "v">> >>]

GoodFiles == {CsvFile(h, chs) : h \in Headers, chs \in SeqsUpTo(Channels, MaxRows)}
Files == GoodFiles \cup {EmptyCsv, RaggedCsv}

\* ------------------------------------------------------------- pd.read_csv
ParseFails(f) ==
    \/ f.header = <<>>
    \/ \E i \in DOMAIN f.records : Len(f.records[i]) > Len(f.header)

IndexOf(h, c) == CHOOSE i \in DOMAIN h : h[i] = c

ReadCsv(f) ==
    [cols |-> f.header,
     rows |-> [i \in DOMAIN f.records |->
                 [c \in Range(f.header) |-> f.records[i][IndexOf(f.header, c)]]]]

\* ------------------------------------------------------ dataframe operations
HasCol(d, c) == c \in Range(d.cols)

Unique(d, c) == {d.rows[i][c] : i \in DOMAIN d.rows}

FilterRows_Complement(d, c, v) ==
    [cols |-> d.cols, rows |-> SelectSeq(d.rows, LAMBDA r : r[c] # v)]

FilterRows(d, c, v) ==
    [cols |-> d.cols, rows |-> SelectSeq(d.rows, LAMBDA r : r[c] = v)]

Project(d, cs) ==
    [cols |-> cs,
     rows |-> [i \in DOMAIN d.rows |-> [c \in Range(cs) |-> d.rows[i][c]]]]

SetColumn_AlwaysAppends(d, c, vals) ==
    [cols |-> Append(d.cols, c),
     rows |-> [i \in DOMAIN d.rows |->
                 [k \in Range(d.cols) \cup {c} |->
                    IF k = c THEN vals[i] ELSE d.rows[i][k]]]]

\* df[c] = vals: a new column goes last, an existing one is overwritten in place.
SetColumn(d, c, vals) ==
    [cols |-> IF HasCol(d, c) THEN d.cols ELSE Append(d.cols, c),
     rows |-> [i \in DOMAIN d.rows |->
                 [k \in Range(d.cols) \cup {c} |->
                    IF k = c THEN vals[i] ELSE d.rows[i][k]]]]

\* ------------------------------------------------- charts and summary (utils)
PlotCsatDistribution(d) == HasCol(d, "CSAT Score")

PlotAvgResolutionVsCsat(d) ==
    /\ HasCol(d, "CSAT Score")
    /\ HasCol(d, "resolution_time") \/ HasCol(d, "connected_handling_time")

PlotChannelVsCsat(d) == HasCol(d, "channel_name")

RECURSIVE SumCol(_, _, _)
SumCol(d, c, n) == IF n = 0 THEN 0 ELSE d.rows[n][c] + SumCol(d, c, n - 1)

\* Total records; with a CSAT column also the mean and the share of scores >= 4,
\* each kept as numerator and denominator.
SummaryStats(d) ==
    IF HasCol(d, "CSAT Score")
    THEN <<Len(d.rows),
           <<SumCol(d, "CSAT Score", Len(d.rows)), Len(d.rows)>>,
           <<Cardinality({i \in DOMAIN d.rows :
                            d.rows[i]["CSAT Score"] >= SatisfiedThreshold}),
             Len(d.rows)>> >>
    ELSE <<Len(d.rows)>>

\* ------------------------------------------------------- the fitted artifacts
ArtifactFiles == {"model/model.pkl", "model/preprocessor.pkl"}

NoChoice == "None"
ChannelValues == Channels \cup {NoChoice}

\* What a fitted pipeline does with a record, decided by its channel: the
\* preprocessor rejects the values in unknown, the classifier answers 1 on the
\* values in satisfied and 0 on the rest.  Two fitted pipelines are tried: one
\* that knows both channels and one that was fitted without "Chat".
Pipelines ==
    {[unknown |-> {NoChoice}, satisfied |-> {"Email"}],
     [unknown |-> {NoChoice, "Chat"}, satisfied |-> {"Email"}]}

TransformRaises(pl, X) ==
    \E i \in DOMAIN X.rows : X.rows[i]["channel_name"] \in pl.unknown

Predict(pl, X) ==
    [i \in DOMAIN X.rows |->
        IF X.rows[i]["channel_name"] \in pl.satisfied THEN 1 ELSE 0]

\* ------------------------------------------------------------------- state
VARIABLES
    model_files,      \* artifact files present on disk
    pipeline,         \* behaviour of the fitted preprocessor and classifier
    feedback_txt,     \* feedback.txt, a sequence of lines
    uploaded_file,    \* per session: <<>> or <<file>> held by the upload control
    session_state,    \* per session: st.session_state, <<>> or [df |-> dataset]
    pc,               \* per session: the script section to run next
    button,           \* per session: the interaction that caused the rerun
    widgets,          \* per session: widgets rendered by the current/last rerun
    shown,            \* per session: views and messages rendered by the rerun
    channel_filter,   \* per session: value of the channel selectbox
    eda_df,           \* per session: <<>> or <<the filtered frame EDA charts>>
    summary,          \* per session: the summary statistics rendered
    feedback_data,    \* per session: the formatted block being saved
    wbuf,             \* per session: writes buffered in the open file object
    prev_state,       \* history: session_state before the section run last
    last,             \* history: the section run last
    accepted,         \* history: the valid forms submitted, in order
    batch_result      \* history: <<>> or <<frame the first batch run since the
                      \*          last upload left in session_state>>

vars == <<model_files, pipeline, feedback_txt, uploaded_file, session_state, pc,
          button, widgets, shown, channel_filter, eda_df, summary,
          feedback_data, wbuf, prev_state, last, accepted, batch_result>>

env == <<model_files, pipeline>>
edaVars == <<channel_filter, eda_df, summary>>
fbVars == <<feedback_txt, feedback_data, wbuf, accepted>>

Init ==
    /\ model_files \in SUBSET ArtifactFiles
    /\ pipeline \in Pipelines
    /\ feedback_txt = <<>>
    /\ uploaded_file = [s \in Sessions |-> <<>>]
    /\ session_state = [s \in Sessions |-> <<>>]
    /\ pc = [s \in Sessions |-> "closed"]
    /\ button = [s \in Sessions |-> "none"]
    /\ widgets = [s \in Sessions |-> {}]
    /\ shown = [s \in Sessions |-> {}]
    /\ channel_filter = [s \in Sessions |-> "All"]
    /\ eda_df = [s \in Sessions |-> <<>>]
    /\ summary = [s \in Sessions |-> <<>>]
    /\ feedback_data = [s \in Sessions |-> <<>>]
    /\ wbuf = [s \in Sessions |-> <<>>]
    /\ prev_state = [s \in Sessions |-> <<>>]
    /\ last = [s \in Sessions |-> "none"]
    /\ accepted = <<>>
    /\ batch_result = [s \in Sessions |-> <<>>]

HasDf(s) == "df" \in DOMAIN session_state[s]

\* ----------------------------------------------------- what starts a rerun
StartRun(s, b) ==
    /\ pc' = [pc EXCEPT ![s] = "load"]
    /\ button' = [button EXCEPT ![s] = b]
    /\ widgets' = [widgets EXCEPT ![s] = {}]
    /\ shown' = [shown EXCEPT ![s] = {}]
    /\ eda_df' = [eda_df EXCEPT ![s] = <<>>]
    /\ summary' = [summary EXCEPT ![s] = <<>>]
    /\ channel_filter' = [channel_filter EXCEPT ![s] = "All"]
    /\ last' = [last EXCEPT ![s] = "none"]
    /\ prev_state' = [prev_state EXCEPT ![s] = session_state[s]]
    /\ UNCHANGED <<env, fbVars, session_state>>

OpenSession(s) ==
    /\ pc[s] = "closed"
    /\ StartRun(s, "none")
    /\ UNCHANGED <<uploaded_file, batch_result>>

\* Any interaction that fires no button: a filter change, a text edit, the
\* download button, Rerun from the menu.
Rerun(s) ==
    /\ pc[s] = "idle"
    /\ StartRun(s, "rerun")
    /\ UNCHANGED <<uploaded_file, batch_result>>

Upload(s, f) ==
    /\ pc[s] = "idle"
    /\ "uploader" \in widgets[s]
    /\ uploaded_file' = [uploaded_file EXCEPT ![s] = <<f>>]
    /\ batch_result' = [batch_result EXCEPT ![s] = <<>>]
    /\ StartRun(s, "upload")

RemoveFile(s) ==
    /\ pc[s] = "idle"
    /\ "uploader" \in widgets[s]
    /\ uploaded_file[s] # <<>>
    /\ uploaded_file' = [uploaded_file EXCEPT ![s] = <<>>]
    /\ StartRun(s, "remove")
    /\ UNCHANGED batch_result

ClickLive(s) ==
    /\ pc[s] = "idle"
    /\ "live_button" \in widgets[s]
    /\ StartRun(s, "live")
    /\ UNCHANGED <<uploaded_file, batch_result>>

ClickBatch(s) ==
    /\ pc[s] = "idle"
    /\ "batch_button" \in widgets[s]
    /\ StartRun(s, "batch")
    /\ UNCHANGED <<uploaded_file, batch_result>>

PendingSubmits == Cardinality({t \in Sessions : button[t] = "submit" /\ pc[t] # "idle"})

ClickSubmit(s) ==
    /\ pc[s] = "idle"
    /\ "submit_button" \in widgets[s]
    /\ Len(accepted) + PendingSubmits < MaxLog
    /\ StartRun(s, "submit")
    /\ UNCHANGED <<uploaded_file, batch_result>>

\* ------------------------------------------------------ the script's sections
\* Bookkeeping of a section of session s: where the script goes next.
Goto(s, section, next) ==
    /\ pc' = [pc EXCEPT ![s] = next]
    /\ last' = [last EXCEPT ![s] = section]
    /\ prev_state' = [prev_state EXCEPT ![s] = session_state[s]]

Show(s, what) == shown' = [shown EXCEPT ![s] = @ \cup what]

Render(s, what) == widgets' = [widgets EXCEPT ![s] = @ \cup what]

LoadRaises_ModelOnly(files) == "model/model.pkl" \notin files

\* joblib.load of both artifacts raises FileNotFoundError if either is absent.
LoadRaises(files) == ~(ArtifactFiles \subseteq files)

LoadModel(s) ==
    /\ pc[s] = "load"
    /\ IF LoadRaises(model_files)
       THEN Show(s, {"error_model"}) /\ Goto(s, "load", "idle")
       ELSE UNCHANGED shown /\ Goto(s, "load", "upload")
    /\ UNCHANGED <<env, fbVars, edaVars, uploaded_file, session_state, button, widgets, batch_result>>

StateAfterUpload_Clearing(state, up) ==
    IF up = <<>> THEN state ELSE IF ParseFails(up[1]) THEN <<>> ELSE [df |-> ReadCsv(up[1])]

\* st.session_state after the upload section, from the state before it and the
\* content of the upload control.
StateAfterUpload(state, up) ==
    IF up = <<>> \/ ParseFails(up[1]) THEN state ELSE [df |-> ReadCsv(up[1])]

SaveUploadedData(s) ==
    /\ pc[s] = "upload"
    /\ Render(s, {"uploader"})
    /\ session_state' = [session_state EXCEPT ![s] = StateAfterUpload(@, uploaded_file[s])]
    /\ IF uploaded_file[s] # <<>> /\ ParseFails(uploaded_file[s][1])
       THEN Show(s, {"error_read"}) /\ Goto(s, "upload", "idle")
       ELSE UNCHANGED shown /\ Goto(s, "upload", "eda")
    /\ UNCHANGED <<env, fbVars, edaVars, uploaded_file, button, batch_result>>

\* The options of the channel selectbox.
FilterOptions(d) == {"All"} \cup Unique(d, "channel_name")

\* The frame the charts and the summary are computed from.
ApplyFilter(d, v) == IF v # "All" THEN FilterRows(d, "channel_name", v) ELSE d

\* What the three charts and their fallbacks render for frame d.
Charts(d) ==
    (IF PlotCsatDistribution(d) THEN {"chart_csat"} ELSE {})
    \cup (IF PlotAvgResolutionVsCsat(d) THEN {"chart_resolution"} ELSE {"warn_resolution"})
    \cup (IF PlotChannelVsCsat(d) THEN {"chart_channel"} ELSE {"warn_channel"})

\* Whether building the selectbox options raises KeyError.
FilterRaises(d) == ~HasCol(d, "channel_name")

EDATab(s) ==
    /\ pc[s] = "eda"
    /\ IF ~HasDf(s)
       THEN /\ Show(s, {"home", "eda", "info_eda"})
            /\ Goto(s, "eda", "predict")
            /\ UNCHANGED <<widgets, edaVars>>
       ELSE LET df == session_state[s].df IN
            IF FilterRaises(df)
            THEN /\ Show(s, {"home", "eda", "exception"})
                 /\ Goto(s, "eda", "idle")
                 /\ UNCHANGED <<widgets, edaVars>>
            ELSE \E v \in FilterOptions(df) :
                   LET view == ApplyFilter(df, v) IN
                   /\ channel_filter' = [channel_filter EXCEPT ![s] = v]
                   /\ eda_df' = [eda_df EXCEPT ![s] = <<view>>]
                   /\ summary' = [summary EXCEPT ![s] = SummaryStats(view)]
                   /\ Render(s, {"channel_filter"})
                   /\ Show(s, {"home", "eda", "summary"} \cup Charts(view))
                   /\ Goto(s, "eda", "predict")
    /\ UNCHANGED <<env, fbVars, uploaded_file, session_state, button, batch_result>>

\* Whether building the live form raises KeyError (outside any try block).
FormRaises(d) == \E c \in Range(FormCols) : ~HasCol(d, c)

\* The values the channel selectbox of the live form can hold.
LiveChoices(d) ==
    IF Unique(d, "channel_name") = {} THEN {NoChoice} ELSE Unique(d, "channel_name")

\* The one-row frame built from the live form; the free-text fields are "v".
LiveInput(ch) ==
    [cols |-> FeatureCols,
     rows |-> << [c \in Range(FeatureCols) |-> Cell(c, ch)] >>]

LabelOf(p) == IF p = 1 THEN "Satisfied" ELSE IF p = 0 THEN "Not Satisfied" ELSE "NaN"

\* What the live prediction renders.
LiveOutcome(pl, X) ==
    IF TransformRaises(pl, X)
    THEN {"error_live"}
    ELSE {"success_live",
          IF Predict(pl, X)[1] = 1 THEN "live_satisfied" ELSE "live_not_satisfied"}

\* Whether the try block of the batch prediction raises.
BatchRaises(pl, d) ==
    \/ \E c \in Range(FeatureCols) : ~HasCol(d, c)
    \/ TransformRaises(pl, Project(d, FeatureCols))

BatchResult_OnProjection(pl, d) ==
    LET X == Project(d, FeatureCols)
        d1 == SetColumn(X, PredictedCSAT, Predict(pl, X))
    IN  SetColumn(d1, PredictedLabel,
                  [i \in DOMAIN d1.rows |-> LabelOf(d1.rows[i][PredictedCSAT])])

\* The frame after the two column assignments.
BatchResult(pl, d) ==
    LET predictions == Predict(pl, Project(d, FeatureCols))
        d1 == SetColumn(d, PredictedCSAT, predictions)
    IN  SetColumn(d1, PredictedLabel,
                  [i \in DOMAIN d1.rows |-> LabelOf(d1.rows[i][PredictedCSAT])])

StateAfterBatch_AssignsFirst(state, pl) ==
    IF \E c \in Range(FeatureCols) : ~HasCol(state.df, c)
    THEN [df |-> SetColumn(state.df, PredictedCSAT, [i \in DOMAIN state.df.rows |-> 0])]
    ELSE IF TransformRaises(pl, Project(state.df, FeatureCols))
         THEN state
         ELSE [df |-> BatchResult(pl, state.df)]

\* st.session_state after the batch button's block; df aliases the stored frame.
StateAfterBatch(state, pl) ==
    IF BatchRaises(pl, state.df) THEN state ELSE [df |-> BatchResult(pl, state.df)]

PredictionTab(s) ==
    /\ pc[s] = "predict"
    /\ IF ~HasDf(s)
       THEN /\ Show(s, {"predict", "info_predict"})
            /\ Goto(s, "predict", "feedback")
            /\ UNCHANGED <<widgets, session_state>>
       ELSE LET df == session_state[s].df IN
            IF FormRaises(df)
            THEN /\ Show(s, {"predict", "exception"})
                 /\ Goto(s, "predict", "idle")
                 /\ UNCHANGED <<widgets, session_state>>
            ELSE /\ Render(s, {"live_button", "batch_button"})
                 /\ Goto(s, "predict", "feedback")
                 /\ CASE button[s] = "live" ->
                           /\ \E ch \in LiveChoices(df) :
                                Show(s, {"predict"} \cup LiveOutcome(pipeline, LiveInput(ch)))
                           /\ UNCHANGED session_state
                      [] button[s] = "batch" ->
                           /\ session_state' =
                                [session_state EXCEPT ![s] = StateAfterBatch(@, pipeline)]
                           /\ Show(s, {"predict"} \cup
                                      IF BatchRaises(pipeline, df)
                                      THEN {"error_batch"}
                                      ELSE {"success_batch", "preview", "download"})
                      [] OTHER ->
                           /\ Show(s, {"predict"})
                           /\ UNCHANGED session_state
    /\ batch_result' =
          IF "success_batch" \in shown'[s] /\ batch_result[s] = <<>>
          THEN [batch_result EXCEPT ![s] = <<session_state'[s].df>>]
          ELSE batch_result
    /\ UNCHANGED <<env, fbVars, edaVars, uploaded_file, button>>

\* ------------------------------------------------------------ feedback form
Texts == {"", "a"}
Ratings == RatingMin..RatingMax

Truthy(x) == x # ""

FormValid_NameAndEmail(name, email, suggestions) == Truthy(name) /\ Truthy(email)

FormValid(name, email, suggestions) == Truthy(name) /\ Truthy(email) /\ Truthy(suggestions)

Digits == <<"1", "2", "3", "4", "5">>

\* The f-string, as its lines; the text ends "\n\n", so a blank line is last.
FormatFeedback(name, email, rating, suggestions) ==
    << <<"Name: ", name>>,
       <<"Email: ", email>>,
       <<"Rating: ", Digits[rating], " star">>,
       <<"Suggestions: ", suggestions>>,
       <<>> >>

FileWrites_PerLine(data) == [i \in DOMAIN data |-> <<data[i]>>]

\* The appends one f.write(data) followed by the close of the file performs.
FileWrites(data) == <<data>>

\* ratings: the slider positions tried.
FeedbackTab(s, ratings) ==
    /\ pc[s] = "feedback"
    /\ Render(s, {"submit_button"})
    /\ IF button[s] = "submit"
       THEN \E name \in Texts, email \in Texts, suggestions \in Texts, rating \in ratings :
              /\ accepted' =
                   IF name # "" /\ email # "" /\ suggestions # ""
                   THEN Append(accepted, [name |-> name, email |-> email,
                                          rating |-> rating, suggestions |-> suggestions])
                   ELSE accepted
              /\ IF FormValid(name, email, suggestions)
                 THEN /\ feedback_data' = [feedback_data EXCEPT ![s] =
                             FormatFeedback(name, email, rating, suggestions)]
                      /\ Show(s, {"feedback"})
                      /\ Goto(s, "feedback", "open")
                 ELSE /\ Show(s, {"feedback", "warn_feedback"})
                      /\ Goto(s, "feedback", "idle")
                      /\ UNCHANGED feedback_data
       ELSE /\ Show(s, {"feedback"})
            /\ Goto(s, "feedback", "idle")
            /\ UNCHANGED <<feedback_data, accepted>>
    /\ UNCHANGED <<env, edaVars, feedback_txt, wbuf, uploaded_file, session_state, button, batch_result>>

OpenFeedbackFile(s) ==
    /\ pc[s] = "open"
    /\ Goto(s, "open", "write")
    /\ UNCHANGED <<env, fbVars, edaVars, uploaded_file, session_state, button, widgets, shown,
                   batch_result>>

WriteFeedback(s) ==
    /\ pc[s] = "write"
    /\ wbuf' = [wbuf EXCEPT ![s] = FileWrites(feedback_data[s])]
    /\ Goto(s, "write", "close")
    /\ UNCHANGED <<env, edaVars, feedback_txt, feedback_data, accepted, uploaded_file,
                   session_state, button, widgets, shown, batch_result>>

\* Leaving the with block flushes the buffer, one append per buffered write,
\* then the success message and the echo of the form are rendered.
CloseFeedbackFile(s) ==
    /\ pc[s] = "close"
    /\ wbuf[s] # <<>>
    /\ feedback_txt' = feedback_txt \o Head(wbuf[s])
    /\ wbuf' = [wbuf EXCEPT ![s] = Tail(@)]
    /\ IF Tail(wbuf[s]) = <<>>
       THEN /\ Show(s, {"success_feedback"})
            /\ feedback_data' = [feedback_data EXCEPT ![s] = <<>>]
            /\ Goto(s, "close", "idle")
       ELSE /\ Goto(s, "close", "close")
            /\ UNCHANGED <<shown, feedback_data>>
    /\ UNCHANGED <<env, edaVars, accepted, uploaded_file, session_state, button, widgets,
                   batch_result>>

\* ------------------------------------------------------------ specifications
Script(s, ratings) ==
    \/ LoadModel(s)
    \/ SaveUploadedData(s)
    \/ EDATab(s)
    \/ PredictionTab(s)
    \/ FeedbackTab(s, ratings)
    \/ OpenFeedbackFile(s)
    \/ WriteFeedback(s)
    \/ CloseFeedbackFile(s)

\* One browser session using every control of the page, the rating slider
\* left at its default.
Next ==
    \/ OpenSession("s1")
    \/ Rerun("s1")
    \/ \E f \in Files : Upload("s1", f)
    \/ RemoveFile("s1")
    \/ ClickLive("s1")
    \/ ClickBatch("s1")
    \/ ClickSubmit("s1")
    \/ Script("s1", {RatingDefault})

Spec == Init /\ [][Next]_vars

\* Several sessions of one server, none of which uploads, sending feedback
\* with every slider position.
InitFeedback ==
    /\ Init
    /\ model_files = ArtifactFiles
    /\ pipeline = [unknown |-> {NoChoice}, satisfied |-> {"Email"}]

NextFeedback ==
    \E s \in Sessions :
        \/ OpenSession(s)
        \/ ClickSubmit(s)
        \/ Script(s, Ratings)

SpecFeedback == InitFeedback /\ [][NextFeedback]_vars

\* ------------------------------------------------------------------ claims
Views == {"home", "eda", "predict", "feedback"}

\* C1: the upload section given a file that does not parse shows the read
\* error; a rerun that showed it left st.session_state as it was before the
\* upload section (empty, or the dataset stored earlier) and ended there: no
\* view is rendered.
C1_ParseFailureKeepsStore ==
    \A s \in Sessions :
        /\ (last[s] = "upload" /\ uploaded_file[s] \in {<<EmptyCsv>>, <<RaggedCsv>>}) =>
              "error_read" \in shown[s]
        /\ "error_read" \in shown[s] =>
              /\ session_state[s] = prev_state[s]
              /\ shown[s] \cap Views = {}
              /\ pc[s] = "idle"
              /\ last[s] = "upload"

C1_Witness ==
    /\ "error_read" \in shown["s1"]
    /\ HasDf("s1")
    /\ uploaded_file["s1"] = <<RaggedCsv>>

\* C9: with an artifact file missing, every rerun ends at the model error:
\* nothing is stored in st.session_state, no widget and no view is rendered,
\* and feedback.txt is never written.
C9_MissingArtifactHalts ==
    model_files # ArtifactFiles =>
        /\ feedback_txt = <<>>
        /\ \A s \in Sessions :
              /\ session_state[s] = <<>>
              /\ uploaded_file[s] = <<>>
              /\ widgets[s] = {}
              /\ shown[s] \subseteq {"error_model"}
              /\ pc[s] \in {"closed", "load", "idle"}
              /\ pc[s] = "idle" => "error_model" \in shown[s]

C9_Witness ==
    /\ model_files = {"model/model.pkl"}
    /\ pc["s1"] = "idle"
    /\ button["s1"] = "rerun"
    /\ "error_model" \in shown["s1"]

FreeTextCols == {"category", "Sub-category", "Agent_name", "Supervisor", "Manager"}

LacksFeature(d) == \E c \in Range(FeatureCols) : c \notin Range(d.cols)

C4_EdaNeverFaults ==
    \A s \in Sessions :
        (last[s] = "eda" /\ HasDf(s)) =>
            /\ "exception" \notin shown[s]
            /\ "summary" \in shown[s]
            /\ "channel_name" \notin Range(session_state[s].df.cols) =>
                  "warn_channel" \in shown[s] /\ "chart_channel" \notin shown[s]

\* C5 as claimed: neither the EDA section nor the Predict section changes
\* st.session_state.
C5_ViewsNeverWrite ==
    \A s \in Sessions :
        last[s] \in {"eda", "predict"} => session_state[s] = prev_state[s]

NonPrediction(cols) == SelectSeq(cols, LAMBDA c : c \notin PredictionCols)

\* C5 amended: the EDA section, a live prediction and a failed batch
\* prediction leave st.session_state as it was; a successful batch prediction
\* changes the stored dataset by setting the two prediction columns and
\* nothing else: rows, other columns, their order and their cells are kept.
C5_OnlyBatchSuccessWrites ==
    \A s \in Sessions :
        /\ last[s] = "eda" => session_state[s] = prev_state[s]
        /\ last[s] = "predict" =>
              IF "success_batch" \in shown[s]
              THEN LET new == session_state[s].df
                       old == prev_state[s].df
                   IN  /\ button[s] = "batch"
                       /\ NonPrediction(new.cols) = NonPrediction(old.cols)
                       /\ Range(new.cols) = Range(old.cols) \cup PredictionCols
                       /\ Len(new.rows) = Len(old.rows)
                       /\ \A i \in DOMAIN old.rows :
                            \A c \in Range(old.cols) \ PredictionCols :
                               new.rows[i][c] = old.rows[i][c]
              ELSE session_state[s] = prev_state[s]

C5_Witness ==
    /\ last["s1"] = "predict"
    /\ "success_batch" \in shown["s1"]
    /\ session_state["s1"] # prev_state["s1"]
    /\ Len(session_state["s1"].df.rows) = MaxRows

\* C6 as claimed: the slot is empty until a session's first upload, never
\* becomes empty again, and the stored dataset changes only in the upload
\* section of a rerun caused by an upload, or by batch prediction appending
\* its columns.
C6_StoreSurvivesReruns ==
    \A s \in Sessions :
        /\ pc[s] = "closed" => session_state[s] = <<>>
        /\ prev_state[s] # <<>> => session_state[s] # <<>>
        /\ session_state[s] # prev_state[s] =>
              \/ last[s] = "upload" /\ button[s] = "upload"
              \/ last[s] = "predict" /\ button[s] = "batch"

\* C7: right after the EDA section, the frame behind the charts is the stored
\* dataset itself under "All"; under any other selectable value it has the
\* dataset's columns and, in the dataset's order, exactly its rows whose
\* channel_name is that value.
C7_FilterExact ==
    \A s \in Sessions :
        (last[s] = "eda" /\ eda_df[s] # <<>>) =>
            LET df == session_state[s].df
                view == eda_df[s][1]
                v == channel_filter[s]
                hits == {i \in DOMAIN df.rows : df.rows[i]["channel_name"] = v}
            IN  IF v = "All"
                THEN view = df
                ELSE /\ view.cols = df.cols
                     /\ \A i \in DOMAIN view.rows : view.rows[i]["channel_name"] = v
                     /\ Len(view.rows) = Cardinality(hits)
                     /\ \E f \in [DOMAIN view.rows -> hits] :
                          /\ \A i, j \in DOMAIN view.rows : i < j => f[i] < f[j]
                          /\ \A i \in DOMAIN view.rows : view.rows[i] = df.rows[f[i]]

C7_Witness ==
    /\ last["s1"] = "eda"
    /\ eda_df["s1"] # <<>>
    /\ channel_filter["s1"] = "Chat"
    /\ Len(eda_df["s1"][1].rows) = 1
    /\ Len(session_state["s1"].df.rows) = MaxRows

\* C10: a successful batch prediction leaves the dataset's other columns in
\* their order followed by one Predicted CSAT and one Predicted Label column,
\* each label matching its 0/1 value; a run on a dataset that already carries
\* the prediction columns changes nothing, and every later run before the next
\* upload stores the same dataset as the first.
C10_BatchIdempotent ==
    \A s \in Sessions :
        (last[s] = "predict" /\ "success_batch" \in shown[s]) =>
            LET new == session_state[s].df
                old == prev_state[s].df
            IN  /\ new.cols = NonPrediction(old.cols) \o <<PredictedCSAT, PredictedLabel>>
                /\ \A i \in DOMAIN new.rows :
                     /\ DOMAIN new.rows[i] = Range(new.cols)
                     /\ new.rows[i][PredictedCSAT] \in {0, 1}
                     /\ new.rows[i][PredictedLabel] =
                          IF new.rows[i][PredictedCSAT] = 1
                          THEN "Satisfied" ELSE "Not Satisfied"
                /\ PredictedCSAT \in Range(old.cols) => new = old
                /\ batch_result[s] = <<new>>

C10_Witness ==
    /\ last["s1"] = "predict"
    /\ "success_batch" \in shown["s1"]
    /\ PredictedCSAT \in Range(prev_state["s1"].df.cols)
    /\ \E i, j \in DOMAIN session_state["s1"].df.rows :
          /\ session_state["s1"].df.rows[i][PredictedCSAT] = 1
          /\ session_state["s1"].df.rows[j][PredictedCSAT] = 0

\* The block a valid form is to leave in feedback.txt.
ExpectedBlock(a) ==
    << <<"Name: ", a.name>>,
       <<"Email: ", a.email>>,
       <<"Rating: ",
         CASE a.rating = 1 -> "1" [] a.rating = 2 -> "2" [] a.rating = 3 -> "3"
           [] a.rating = 4 -> "4" [] a.rating = 5 -> "5",
         " star">>,
       <<"Suggestions: ", a.suggestions>>,
       <<>> >>

BlockLen == Len(ExpectedBlock([name |-> "a", email |-> "a", rating |-> RatingDefault,
                               suggestions |-> "a"]))

\* Sessions between the validation of a form and the end of its write.
InFlight == {s \in Sessions : pc[s] \in {"open", "write", "close"}}

BlocksInFile == Len(feedback_txt) \div BlockLen

BlockAt(k) == SubSeq(feedback_txt, (k - 1) * BlockLen + 1, k * BlockLen)

TimesInFile(b) == Cardinality({k \in 1..BlocksInFile : BlockAt(k) = b})

TimesAccepted(b) == Cardinality({i \in DOMAIN accepted : ExpectedBlock(accepted[i]) = b})

\* C3: feedback.txt holds one block per submission whose name, email and
\* suggestions were all non-empty, whatever its rating, and nothing else: a
\* rejected submission shows the warning and starts no write, and once no write
\* is under way the file holds exactly the blocks of the valid submissions.
C3_OneBlockPerValidSubmission ==
    /\ Len(feedback_txt) = BlockLen * (Len(accepted) - Cardinality(InFlight))
    /\ InFlight = {} =>
          \A i \in DOMAIN accepted :
              TimesInFile(ExpectedBlock(accepted[i])) =
                  TimesAccepted(ExpectedBlock(accepted[i]))
    /\ \A s \in Sessions :
          /\ "warn_feedback" \in shown[s] =>
                pc[s] = "idle" /\ "success_feedback" \notin shown[s]
          /\ "success_feedback" \in shown[s] => button[s] = "submit"

C3_Witness ==
    /\ InFlight = {}
    /\ Len(accepted) = MaxLog
    /\ accepted[1].rating = RatingMin
    /\ accepted[MaxLog].rating = RatingMax
    /\ BlocksInFile = MaxLog
    /\ "warn_feedback" \in shown["s2"]
    /\ "success_feedback" \in shown["s1"]

\* C8: whatever the interleaving of the sessions, feedback.txt is at every
\* moment a sequence of whole blocks, each the block of a valid submission and
\* none more often than it was submitted; when the writers are done, every
\* submitted block is there.
C8_BlocksNeverInterleave ==
    /\ Len(feedback_txt) = BlocksInFile * BlockLen
    /\ \A k \in 1..BlocksInFile :
          /\ \E i \in DOMAIN accepted : BlockAt(k) = ExpectedBlock(accepted[i])
          /\ TimesInFile(BlockAt(k)) <= TimesAccepted(BlockAt(k))
    /\ InFlight = {} => BlocksInFile = Len(accepted)

\* Session s1 validated its form first and is still inside the with block when
\* session s2, which submitted later, has completed its append.
C8_Witness ==
    /\ pc["s1"] = "close"
    /\ wbuf["s1"] # <<>>
    /\ Len(accepted) = 2
    /\ accepted[1].rating = RatingMin
    /\ accepted[2].rating = RatingMax
    /\ feedback_data["s1"] = ExpectedBlock(accepted[1])
    /\ feedback_txt = ExpectedBlock(accepted[2])
    /\ "success_feedback" \in shown["s2"]

====
